---- MODULE Spec2Model ----
(***************************************************************************)
(* RaceLens, src/src/cleaning.py: the DataCleaner row cleaner.             *)
(*                                                                         *)
(* A text is a sequence of one-character strings.  A scalar value is a     *)
(* record [t, s, sg, m, e]: t is "null", "str", "int" or "float"; s is the *)
(* text of a str; a number is sg * m * 10^e with m free of trailing zeros  *)
(* (the decimal a Python float of at most 15 significant digits prints and *)
(* parses back exactly).  A row (dict) is a sequence of <<key, value>>     *)
(* pairs with distinct keys, in insertion order.  Dicts and lists are      *)
(* objects: heap[i] is the dict with identity i, lists[i] the list with    *)
(* identity i (a sequence of dict identities).                             *)
(***************************************************************************)
EXTENDS Integers, Sequences, FiniteSets, TLC

VARIABLES val, heap, lists, op, ret, log

vars == <<val, heap, lists, op, ret, log>>

\* ------------------------------------------------------------------ bounds
MaxLen == 3
MaxCols == 2
MaxRows == 2
MaxDupRows == 3
MaxCalls == 2

\* ------------------------------------------------------------------ values
None == [t |-> "null", s |-> <<>>, sg |-> 1, m |-> 0, e |-> 0]

PyStr(s) == [t |-> "str", s |-> s, sg |-> 1, m |-> 0, e |-> 0]

PyInt(sg, m, e) == [t |-> "int", s |-> <<>>, sg |-> sg, m |-> m, e |-> e]

PyFloat(sg, m, e) == [t |-> "float", s |-> <<>>, sg |-> sg, m |-> m, e |-> e]

\* The outcome of a call that raises ValueError.
ValueError == [t |-> "ValueError", s |-> <<>>, sg |-> 1, m |-> 0, e |-> 0]

IsStr(v) == v.t = "str"

IsNum(v) == v.t \in {"int", "float"}

\* Python's == on scalars: 1 == 1.0 and -0.0 == 0.0, None only equals None.
PyEq(a, b) ==
    \/ a.t = "null" /\ b.t = "null"
    \/ IsStr(a) /\ IsStr(b) /\ a.s = b.s
    \/ IsNum(a) /\ IsNum(b)
       /\ \/ a.m = 0 /\ b.m = 0
          \/ a.sg = b.sg /\ a.m = b.m /\ a.e = b.e

Digits == {"0", "1", "2", "3", "4", "5", "6", "7", "8", "9"}

DigitVal(c) ==
    CASE c = "0" -> 0 [] c = "1" -> 1 [] c = "2" -> 2 [] c = "3" -> 3
      [] c = "4" -> 4 [] c = "5" -> 5 [] c = "6" -> 6 [] c = "7" -> 7
      [] c = "8" -> 8 [] c = "9" -> 9

DigitChar(d) == <<"0", "1", "2", "3", "4", "5", "6", "7", "8", "9">>[d + 1]

\* The characters str.strip() removes (those that occur in the inputs).
Whitespace == {" ", "\t", "\n"}

RECURSIVE LStrip(_)
LStrip(s) ==
    IF s # <<>> /\ Head(s) \in Whitespace THEN LStrip(Tail(s)) ELSE s

RECURSIVE RStrip(_)
RStrip(s) ==
    IF s # <<>> /\ s[Len(s)] \in Whitespace
    THEN RStrip(SubSeq(s, 1, Len(s) - 1))
    ELSE s

strip(s) == RStrip(LStrip(s))

\* re.sub(r"[\$,]", "", s)
RECURSIVE re_sub_currency(_)
re_sub_currency(s) ==
    IF s = <<>> THEN <<>>
    ELSE IF Head(s) \in {"$", ","} THEN re_sub_currency(Tail(s))
    ELSE <<Head(s)>> \o re_sub_currency(Tail(s))

\* The end (exclusive) of the run of digits of s that starts at i.
RECURSIVE SpanDigits(_, _)
SpanDigits(s, i) ==
    IF i <= Len(s) /\ s[i] \in Digits THEN SpanDigits(s, i + 1) ELSE i

\* The number written by the digits s[i..j-1].
RECURSIVE DigitsVal(_, _, _)
DigitsVal(s, i, j) ==
    IF j <= i THEN 0 ELSE DigitsVal(s, i, j - 1) * 10 + DigitVal(s[j - 1])

RECURSIVE Normalize(_)
Normalize(v) ==
    IF v.m = 0 THEN [v EXCEPT !.e = 0]
    ELSE IF v.m % 10 = 0 THEN Normalize([v EXCEPT !.m = v.m \div 10, !.e = v.e + 1])
    ELSE v

RECURSIVE NumDigits(_)
NumDigits(n) == IF n < 10 THEN 1 ELSE 1 + NumDigits(n \div 10)

RECURSIVE DigitsOf(_)
DigitsOf(n) ==
    IF n < 10 THEN <<DigitChar(n)>>
    ELSE DigitsOf(n \div 10) \o <<DigitChar(n % 10)>>

RECURSIVE Zeros(_)
Zeros(n) == IF n <= 0 THEN <<>> ELSE <<"0">> \o Zeros(n - 1)

\* The number of "0" that end the digits ds.
RECURSIVE TrailingZeros(_)
TrailingZeros(ds) ==
    IF ds # <<>> /\ ds[Len(ds)] = "0"
    THEN 1 + TrailingZeros(SubSeq(ds, 1, Len(ds) - 1))
    ELSE 0

\* float(s) on a stripped text: ok is FALSE when it raises ValueError.  The
\* grammar is sign? (digits+ ('.' digits*)? | '.' digits+) ([eE] sign? digits+)?;
\* the inputs spell neither inf nor nan and hold no '_'.
\* The mantissa that starts at p0 with the digits s[p0..p1-1]: its digits, the
\* number of them after the point, and the place after it.
float_mantissa(s, p0, p1) ==
    IF p1 <= Len(s) /\ s[p1] = "."
    THEN [ds |-> SubSeq(s, p0, p1 - 1) \o SubSeq(s, p1 + 1, SpanDigits(s, p1 + 1) - 1),
          nFrac |-> SpanDigits(s, p1 + 1) - (p1 + 1),
          end |-> SpanDigits(s, p1 + 1)]
    ELSE [ds |-> SubSeq(s, p0, p1 - 1), nFrac |-> 0, end |-> p1]

\* The exponent digits at q1, of sign esg.
float_exponent_digits(s, q1, esg) ==
    [ok |-> SpanDigits(s, q1) > q1,
     ex |-> esg * DigitsVal(s, q1, SpanDigits(s, q1)),
     end |-> SpanDigits(s, q1)]

\* The exponent part at p2, if there is one.
float_exponent(s, p2) ==
    IF p2 <= Len(s) /\ s[p2] \in {"e", "E"}
    THEN float_exponent_digits(
             s,
             IF p2 + 1 <= Len(s) /\ s[p2 + 1] \in {"+", "-"} THEN p2 + 2 ELSE p2 + 1,
             IF p2 + 1 <= Len(s) /\ s[p2 + 1] = "-" THEN -1 ELSE 1)
    ELSE [ok |-> TRUE, ex |-> 0, end |-> p2]

\* sg * ds * 10^ex, tz being the number of zeros that end ds
float_value(sg, ds, tz, ex) ==
    Normalize(PyFloat(sg, DigitsVal(ds, 1, Len(ds) - tz + 1), ex + tz))

float_build(s, sg, mt, xp) ==
    IF mt.ds # <<>> /\ xp.ok /\ xp.end = Len(s) + 1
    THEN [ok |-> TRUE, v |-> float_value(sg, mt.ds, TrailingZeros(mt.ds), xp.ex - mt.nFrac)]
    ELSE [ok |-> FALSE, v |-> ValueError]

float_of_mantissa(s, sg, mt) == float_build(s, sg, mt, float_exponent(s, mt.end))

float_of_str_at(s, sg, p0) ==
    float_of_mantissa(s, sg, float_mantissa(s, p0, SpanDigits(s, p0)))

float_of_str(s) ==
    float_of_str_at(s,
                    IF s # <<>> /\ s[1] = "-" THEN -1 ELSE 1,
                    IF s # <<>> /\ s[1] \in {"+", "-"} THEN 2 ELSE 1)

\* float(x) of a number
float_of_num(v) == Normalize(PyFloat(v.sg, v.m, v.e))

\* value < 0 and value > 1e9 on floats (-0.0 < 0 is False)
IsNegative(v) == v.sg = -1 /\ v.m > 0

IsHuge(v) ==
    LET x == NumDigits(v.m) + v.e - 1
    IN  v.sg = 1 /\ v.m > 0 /\ (x > 9 \/ (x = 9 /\ v.m # 1))

\* repr(float): the shortest digits, in exponent form when the decimal point
\* position is <= -4 or > 16, and with ".0" added to an integral value.
\* The exponent x: its sign and at least two digits.
float_repr_exponent(x) ==
    <<"e", IF x < 0 THEN "-" ELSE "+">>
    \o (IF x > -10 /\ x < 10 THEN <<"0">> ELSE <<>>)
    \o DigitsOf(IF x < 0 THEN -x ELSE x)

\* The digits ds (n of them) with the decimal point after the first decpt.
float_repr_digits(ds, n, decpt) ==
    IF decpt <= -4 \/ decpt > 16
    THEN <<ds[1]>> \o (IF n > 1 THEN <<".">> \o SubSeq(ds, 2, n) ELSE <<>>)
         \o float_repr_exponent(decpt - 1)
    ELSE IF decpt >= n THEN ds \o Zeros(decpt - n) \o <<".", "0">>
    ELSE IF decpt > 0 THEN SubSeq(ds, 1, decpt) \o <<".">> \o SubSeq(ds, decpt + 1, n)
    ELSE <<"0", ".">> \o Zeros(-decpt) \o ds

float_repr(v) ==
    (IF v.sg = -1 THEN <<"-">> ELSE <<>>)
    \o (IF v.m = 0 THEN <<"0", ".", "0">>
        ELSE float_repr_digits(DigitsOf(v.m), NumDigits(v.m), NumDigits(v.m) + v.e))

int_str(v) ==
    (IF v.sg = -1 /\ v.m > 0 THEN <<"-">> ELSE <<>>) \o DigitsOf(v.m) \o (IF v.m = 0 THEN <<>> ELSE Zeros(v.e))

\* str(val)
str(v) ==
    CASE v.t = "str" -> v.s
      [] v.t = "int" -> int_str(v)
      [] v.t = "float" -> float_repr(v)
      [] v.t = "null" -> <<"N", "o", "n", "e">>

\* ------------------------------------------------------- value normalizers
\* "EMDASH" stands for the one character U+2014.
NA_TOKENS ==
    { <<"N", "A">>, <<"N", "/", "A">>, <<"n", "/", "a">>,
      <<"N", "U", "L", "L">>, <<"n", "u", "l", "l">>, <<"N", "o", "n", "e">>,
      <<".">>, <<"-">>, <<"EMDASH">>, <<>> }

\* Mutant of is_missing: the text is looked up without strip().
is_missing_nostrip(v) ==
    IF v.t = "null" THEN TRUE
    ELSE IF IsStr(v) THEN v.s \in NA_TOKENS
    ELSE FALSE

is_missing(v) ==
    IF v.t = "null" THEN TRUE
    ELSE IF IsStr(v) THEN strip(v.s) \in NA_TOKENS \/ strip(v.s) = <<>>
    ELSE FALSE

\* re.search(r"([+-]?\d+(?:\.\d+)?)", s): the start of the leftmost match
\* (0 when there is none) and the matched text.
re_match_at(s, p) ==
    \/ s[p] \in Digits
    \/ s[p] \in {"+", "-"} /\ p + 1 <= Len(s) /\ s[p + 1] \in Digits

RECURSIVE re_search_from(_, _)
re_search_from(s, p) ==
    IF p > Len(s) THEN 0
    ELSE IF re_match_at(s, p) THEN p
    ELSE re_search_from(s, p + 1)

\* Mutant of re_group: the pattern without its fraction part.
re_group_nofrac(s, p) ==
    LET d0 == IF s[p] \in {"+", "-"} THEN p + 1 ELSE p
    IN  SubSeq(s, p, SpanDigits(s, d0) - 1)

re_group(s, p) ==
    LET d0 == IF s[p] \in {"+", "-"} THEN p + 1 ELSE p
        d1 == SpanDigits(s, d0)
        frac == d1 + 1 <= Len(s) /\ s[d1] = "." /\ s[d1 + 1] \in Digits
        d2 == IF frac THEN SpanDigits(s, d1 + 1) ELSE d1
    IN  SubSeq(s, p, d2 - 1)

\* float(match.group(1)) if match else None, p being the start of the match
clean_distance_match(s, p) ==
    IF p = 0 THEN None ELSE float_of_str(re_group(s, p)).v

clean_distance_text(s) == clean_distance_match(s, re_search_from(s, 1))

clean_distance(v) ==
    IF is_missing(v) THEN None ELSE clean_distance_text(str(v))

\* clean_currency: the value returned and the warnings printed.
\* The outcome of float(s): f.ok is FALSE when it raised ValueError.
clean_currency_value(f) ==
    IF ~f.ok THEN [v |-> None, log |-> <<"unparseable">>]
    ELSE IF IsNegative(f.v) THEN [v |-> f.v, log |-> <<"negative">>]
    ELSE IF IsHuge(f.v) THEN [v |-> f.v, log |-> <<"large">>]
    ELSE [v |-> f.v, log |-> <<>>]

clean_currency_text(s) ==
    IF s = <<>> THEN [v |-> None, log |-> <<>>]
    ELSE clean_currency_value(float_of_str(s))

clean_currency(v) ==
    IF is_missing(v) THEN [v |-> None, log |-> <<>>]
    ELSE IF IsNum(v) THEN [v |-> float_of_num(v), log |-> <<>>]
    ELSE clean_currency_text(strip(re_sub_currency(str(v))))

\* Mutant of tidy_string: the text is returned without strip().
tidy_string_nostrip(v) ==
    IF is_missing(v) THEN None ELSE PyStr(str(v))

tidy_string(v) ==
    IF is_missing(v) THEN None ELSE PyStr(strip(str(v)))

\* ------------------------------------------------------------------ inputs
\* Texts: every text of at most MaxLen characters over Alphabet, and the
\* texts of the documentation and tests of cleaning.py.
Alphabet == {" ", "-", "+", ".", "0", "5", "$", ",", "F"}

SampleTexts ==
    { <<"4", ".", "3", "2", "F">>,
      <<"$", "4", ",", "5", "0", "0", ".", "0", "0">>,
      <<"1", "0", "0", "0">>,
      <<"N", "A">>,
      <<"N", "/", "A">>,
      <<"n", "/", "a">>,
      <<"N", "U", "L", "L">>,
      <<"n", "u", "l", "l">>,
      <<"N", "o", "n", "e">>,
      <<"EMDASH">>,
      <<" ", "N", "A", " ">>,
      <<"\t", "N", "/", "A", "\n">>,
      <<"n", "a">>,
      <<"N", "O", "N", "E">>,
      <<"N", " ", "A">>,
      <<"a", "b", "c">>,
      <<" ", " ", "H", "o", "r", "s", "e", " ", " ">>,
      <<"0", ".", "0", "0", "0", "0", "1", "F">>,
      <<"4", "-", "5", "F">>,
      <<"-", "2", ".", "5">>,
      <<"1", "e", "3">>,
      <<"$", "2", ",", "0", "0", "0", ",", "0", "0", "0", ",", "0", "0", "0">>,
      <<"1", "0", "0", "0", "0", "0", "0", "0", "0", "0">>,
      <<"1", ",", "0", "0", "0", ",", "0", "0", "0", ",", "0", "0", "1">>,
      <<"$", "-", "5", ".", "5", "0">>,
      <<"T", "R", "K", "7">> }

Texts == SampleTexts \cup UNION {[1..k -> Alphabet] : k \in 0..MaxLen}

\* int and float inputs: -5, 0, 5, 1000, 10^9, 10^9 + 1, 2 * 10^9 and
\* -5.0, -2.5, -0.0, 0.0, 4.32, 1e-05, 1e9, 2.5e9, 1e16.
Numbers ==
    { PyInt(-1, 5, 0), PyInt(1, 0, 0), PyInt(1, 5, 0), PyInt(1, 1, 3),
      PyInt(1, 1, 9), PyInt(1, 1000000001, 0), PyInt(1, 2, 9),
      PyFloat(-1, 5, 0), PyFloat(-1, 25, -1), PyFloat(-1, 0, 0), PyFloat(1, 0, 0),
      PyFloat(1, 432, -2), PyFloat(1, 1, -5), PyFloat(1, 1, 9), PyFloat(1, 25, 8),
      PyFloat(1, 1, 16) }

Values == {None} \cup Numbers \cup {PyStr(s) : s \in Texts}

\* ------------------------------------------------------------------- dicts
Keys(d) == {d[i][1] : i \in DOMAIN d}

\* d[k]
dict_get(d, k) == d[CHOOSE i \in DOMAIN d : d[i][1] = k][2]

\* d.get(k): None when the key is absent
dict_get_default(d, k) == IF k \in Keys(d) THEN dict_get(d, k) ELSE None

\* d after d.pop(k)
dict_pop(d, k) == SelectSeq(d, LAMBDA p : p[1] # k)

\* d after d[k] = v: an existing key keeps its position, a new key goes last
dict_set(d, k, v) ==
    IF k \in Keys(d)
    THEN [d EXCEPT ![CHOOSE i \in DOMAIN d : d[i][1] = k] = <<k, v>>]
    ELSE Append(d, <<k, v>>)

\* Python's == on dicts: the same keys with equal values, in any order.
DictEq(a, b) ==
    /\ Keys(a) = Keys(b)
    /\ \A k \in Keys(a) : PyEq(dict_get(a, k), dict_get(b, k))

\* Mutant of dict_copy: out = row, the same object.
dict_alias(h, id) == [heap |-> h, id |-> id]

\* dict(row): a new object holding the pairs of h[id].
dict_copy(h, id) == [heap |-> Append(h, h[id]), id |-> Len(h) + 1]

\* ------------------------------------------------------------ row transform
rename_map ==
    << <<"Distance", "distance">>, <<"Purse", "purse">>,
       <<"Field_size", "field_size">>, <<"Earnings", "earnings">>,
       <<"Final Odds", "final_odds">> >>

\* Mutant of rename_from: out[new] = out[old], the raw column is kept.
RECURSIVE rename_keep_raw(_, _)
rename_keep_raw(d, i) ==
    IF i > Len(rename_map) THEN d
    ELSE LET old == rename_map[i][1]
             new == rename_map[i][2]
         IN  rename_keep_raw(IF old \in Keys(d)
                             THEN dict_set(d, new, dict_get(d, old))
                             ELSE d,
                             i + 1)

\* for old, new in rename_map.items(): if old in out: out[new] = out.pop(old)
RECURSIVE rename_from(_, _)
rename_from(d, i) ==
    IF i > Len(rename_map) THEN d
    ELSE LET old == rename_map[i][1]
             new == rename_map[i][2]
         IN  rename_from(IF old \in Keys(d)
                         THEN dict_set(dict_pop(d, old), new, dict_get(d, old))
                         ELSE d,
                         i + 1)

rename_columns(d) == rename_from(d, 1)

clean_distance_column(d) ==
    IF "distance" \in Keys(d)
    THEN dict_set(d, "distance", clean_distance(dict_get(d, "distance")))
    ELSE d

money_cols == <<"purse", "earnings">>

\* out[money_col] = cls.clean_currency(out[money_col]), c being the outcome
set_currency(dl, col, c) ==
    [d |-> dict_set(dl.d, col, c.v), log |-> dl.log \o c.log]

\* for money_col in ['purse', 'earnings']: the dict and the warnings printed
RECURSIVE clean_currency_from(_, _)
clean_currency_from(dl, i) ==
    IF i > Len(money_cols) THEN dl
    ELSE clean_currency_from(
             IF money_cols[i] \in Keys(dl.d)
             THEN set_currency(dl, money_cols[i],
                               clean_currency(dict_get(dl.d, money_cols[i])))
             ELSE dl,
             i + 1)

clean_currency_columns(d) == clean_currency_from([d |-> d, log |-> <<>>], 1)

\* for k, v in out.items(): if isinstance(v, str): out[k] = tidy_string(v)
RECURSIVE tidy_from(_, _)
tidy_from(d, i) ==
    IF i > Len(d) THEN d
    ELSE tidy_from(IF IsStr(d[i][2])
                   THEN dict_set(d, d[i][1], tidy_string(d[i][2]))
                   ELSE d,
                   i + 1)

tidy_columns(d) == tidy_from(d, 1)

\* clean_row(row) on the heap h, row being the dict id: the heap after the
\* call, the identity of the dict returned and the warnings printed.  c is
\* the copy (the heap with it, its identity), m the copy's pairs after the
\* rename, distance and currency steps with the warnings printed.
clean_row_return(c, m) ==
    [heap |-> [c.heap EXCEPT ![c.id] = tidy_columns(m.d)], id |-> c.id, log |-> m.log]

clean_row_steps(c) ==
    clean_row_return(
        c, clean_currency_columns(clean_distance_column(rename_columns(c.heap[c.id]))))

clean_row(h, id) == clean_row_steps(dict_copy(h, id))

\* The list under construction with the row r that clean_row returned.
clean_data_append(st, r) ==
    [heap |-> r.heap, out |-> Append(st.out, r.id), log |-> st.log \o r.log]

\* Used by the mutant of clean_data_from: the row is put first.
clean_data_prepend(st, r) ==
    [heap |-> r.heap, out |-> <<r.id>> \o st.out, log |-> st.log \o r.log]

\* Mutant of clean_data_from: each cleaned row is put first in the result.
RECURSIVE clean_data_reversed(_, _, _)
clean_data_reversed(st, rows, i) ==
    IF i > Len(rows) THEN st
    ELSE clean_data_reversed(clean_data_prepend(st, clean_row(st.heap, rows[i])),
                             rows, i + 1)

\* clean_data(rows) on the heap h and the lists ls, rows being the list id:
\* [cls.clean_row(row) for row in rows] builds a new list.
RECURSIVE clean_data_from(_, _, _)
clean_data_from(st, rows, i) ==
    IF i > Len(rows) THEN st
    ELSE clean_data_from(clean_data_append(st, clean_row(st.heap, rows[i])),
                         rows, i + 1)

clean_data_return(ls, st) ==
    [heap |-> st.heap, lists |-> Append(ls, st.out), id |-> Len(ls) + 1,
     log |-> st.log]

clean_data(h, ls, id) ==
    clean_data_return(
        ls, clean_data_from([heap |-> h, out |-> <<>>, log |-> <<>>], ls[id], 1))

\* ---------------------------------------------------------------- diagnostics
\* Mutant of find_missing_cols: a row without the column is not counted.
RECURSIVE find_missing_cols_present(_, _, _)
find_missing_cols_present(missing, row, j) ==
    IF j > Len(missing) THEN missing
    ELSE find_missing_cols_present(
             IF missing[j][1] \in Keys(row) /\ is_missing(dict_get(row, missing[j][1]))
             THEN [missing EXCEPT ![j] = <<@[1], @[2] + 1>>]
             ELSE missing,
             row, j + 1)

\* for col in cols: if cls.is_missing(row.get(col)): missing[col] += 1
RECURSIVE find_missing_cols(_, _, _)
find_missing_cols(missing, row, j) ==
    IF j > Len(missing) THEN missing
    ELSE find_missing_cols(
             IF is_missing(dict_get_default(row, missing[j][1]))
             THEN [missing EXCEPT ![j] = <<@[1], @[2] + 1>>]
             ELSE missing,
             row, j + 1)

RECURSIVE find_missing_rows(_, _, _, _)
find_missing_rows(missing, h, rows, i) ==
    IF i > Len(rows) THEN missing
    ELSE find_missing_rows(find_missing_cols(missing, h[rows[i]], 1), h, rows, i + 1)

\* find_missing(rows): the dict column -> count, in the order of rows[0]'s keys
find_missing(h, rows) ==
    IF rows = <<>> THEN <<>>
    ELSE LET cols == h[rows[1]]
             missing == [j \in DOMAIN cols |-> <<cols[j][1], 0>>]
         IN  find_missing_rows(missing, h, rows, 1)

\* The order of Python's str comparison on the column names of the inputs.
KeyOrder ==
    << "Distance", "Earnings", "Field_size", "Final Odds", "Purse", "SomeCol",
       "distance", "earnings", "field_size", "final_odds", "id", "name", "purse" >>

\* Mutant of sorted_items: tuple(row.items()), in insertion order.
unsorted_items(d) == d

\* tuple(sorted(row.items())): the keys are distinct, so the pairs are
\* ordered by key alone.
sorted_items(d) ==
    LET ks == SelectSeq(KeyOrder, LAMBDA k : k \in Keys(d))
    IN  [i \in DOMAIN ks |-> <<ks[i], dict_get(d, ks[i])>>]

\* Python's == on the tuples of pairs
TupleEq(a, b) ==
    /\ Len(a) = Len(b)
    /\ \A i \in DOMAIN a : a[i][1] = b[i][1] /\ PyEq(a[i][2], b[i][2])

\* row_tuple in seen
tuple_in(tp, seen) == \E s \in seen : TupleEq(s, tp)

RECURSIVE find_duplicates_from(_, _, _, _)
find_duplicates_from(st, h, rows, i) ==
    IF i > Len(rows) THEN st
    ELSE LET row_tuple == sorted_items(h[rows[i]])
         IN  find_duplicates_from(
                 IF tuple_in(row_tuple, st.seen)
                 THEN [st EXCEPT !.dups = Append(@, rows[i])]
                 ELSE [st EXCEPT !.seen = @ \cup {row_tuple}],
                 h, rows, i + 1)

\* find_duplicates(rows): the list dups of the dicts of rows
find_duplicates(h, rows) ==
    find_duplicates_from([seen |-> {}, dups |-> <<>>], h, rows, 1).dups

\* ------------------------------------------------- the value-level calls
InitValue ==
    /\ val \in Values
    /\ heap = <<>>
    /\ lists = <<>>
    /\ op = "input"
    /\ ret = None
    /\ log = <<>>

DoIsMissing ==
    /\ op = "input"
    /\ op' = "is_missing"
    /\ ret' = is_missing(val)
    /\ UNCHANGED <<val, heap, lists, log>>

DoCleanDistance ==
    /\ op = "input"
    /\ op' = "clean_distance"
    /\ ret' = clean_distance(val)
    /\ UNCHANGED <<val, heap, lists, log>>

DoCleanCurrency ==
    /\ op = "input"
    /\ op' = "clean_currency"
    /\ ret' = clean_currency(val).v
    /\ log' = log \o clean_currency(val).log
    /\ UNCHANGED <<val, heap, lists>>

DoTidyString ==
    /\ op = "input"
    /\ op' = "tidy_string"
    /\ ret' = tidy_string(val)
    /\ UNCHANGED <<val, heap, lists, log>>

NextValue == DoIsMissing \/ DoCleanDistance \/ DoCleanCurrency \/ DoTidyString

SpecValue == InitValue /\ [][NextValue]_vars

\* --------------------------------------------------------- the row calls
\* Input rows: at most MaxCols columns, in every insertion order, named by
\* the raw and canonical names of rename_map or by the extra column SomeCol.
RowKeys == {rename_map[i][1] : i \in DOMAIN rename_map}
           \cup {rename_map[i][2] : i \in DOMAIN rename_map}
           \cup {"SomeCol"}

\* None, -5, 1e-05, and the texts "4.32F", " NA ", "0.00001F", " $4,500.00"
RowValues ==
    { None, PyInt(-1, 5, 0), PyFloat(1, 1, -5),
      PyStr(<<"4", ".", "3", "2", "F">>),
      PyStr(<<" ", "N", "A", " ">>),
      PyStr(<<"0", ".", "0", "0", "0", "0", "1", "F">>),
      PyStr(<<" ", "$", "4", ",", "5", "0", "0", ".", "0", "0">>) }

Injective(f) == \A i, j \in DOMAIN f : i # j => f[i] # f[j]

InitRow ==
    /\ \E k \in 0..MaxCols :
         \E ks \in [1..k -> RowKeys] :
           /\ Injective(ks)
           /\ \E vs \in [1..k -> RowValues] :
                heap = <<[i \in 1..k |-> <<ks[i], vs[i]>>]>>
    /\ lists = <<>>
    /\ val = 1
    /\ op = "input"
    /\ ret = 0
    /\ log = <<>>

\* clean_row(heap[arg]) returns r.
CleanRowReturns(arg, r) ==
    /\ heap' = r.heap
    /\ val' = arg
    /\ ret' = r.id
    /\ log' = r.log
    /\ op' = "clean_row"
    /\ UNCHANGED lists

\* clean_row on the input row, then on the row the last call returned.
DoCleanRow ==
    /\ Len(heap) <= MaxCalls
    /\ CleanRowReturns(IF op = "input" THEN val ELSE ret,
                       clean_row(heap, IF op = "input" THEN val ELSE ret))

NextRow == DoCleanRow

SpecRow == InitRow /\ [][NextRow]_vars

\* ----------------------------------------------------- the dataset calls
\* Datasets of at most MaxRows rows over the columns Purse and name, with the
\* values None, 1, " NA" and " A ".
DataKeys == {"Purse", "name"}

DataValues ==
    {None, PyInt(1, 1, 0), PyStr(<<" ", "N", "A">>), PyStr(<<" ", "A", " ">>)}

\* heap = the n rows ks[i] -> vs[i], lists = the one list of them
InitRows(n, keys, values) ==
    \E seqs \in [1..n -> UNION {[1..k -> keys \X values] : k \in 0..Cardinality(keys)}] :
        /\ \A i \in 1..n : Injective([j \in DOMAIN seqs[i] |-> seqs[i][j][1]])
        /\ heap = seqs
        /\ lists = << [i \in 1..n |-> i] >>

InitData ==
    /\ \E n \in 0..MaxRows : InitRows(n, DataKeys, DataValues)
    /\ val = 1
    /\ op = "input"
    /\ ret = 0
    /\ log = <<>>

CleanDataReturns(r) ==
    /\ heap' = r.heap
    /\ lists' = r.lists
    /\ ret' = r.id
    /\ log' = r.log
    /\ op' = "clean_data"
    /\ UNCHANGED val

\* clean_data on the input list
DoCleanData ==
    /\ op = "input"
    /\ CleanDataReturns(clean_data(heap, lists, val))

\* clean_row on one row of the input list
DoCleanRowAt ==
    /\ op = "input"
    /\ \E id \in DOMAIN heap : CleanRowReturns(id, clean_row(heap, id))

\* find_missing on the input list or on the list clean_data returned
DoFindMissing ==
    /\ op \in {"input", "clean_data"}
    /\ \E id \in DOMAIN lists :
         /\ val' = id
         /\ ret' = find_missing(heap, lists[id])
    /\ op' = "find_missing"
    /\ UNCHANGED <<heap, lists, log>>

\* find_duplicates on the input list or on the list clean_data returned
DoFindDuplicates ==
    /\ op \in {"input", "clean_data"}
    /\ \E id \in DOMAIN lists :
         /\ val' = id
         /\ lists' = Append(lists, find_duplicates(heap, lists[id]))
    /\ ret' = Len(lists) + 1
    /\ op' = "find_duplicates"
    /\ UNCHANGED <<heap, log>>

NextData == DoCleanData \/ DoCleanRowAt \/ DoFindMissing \/ DoFindDuplicates

SpecData == InitData /\ [][NextData]_vars

\* Datasets of at most MaxDupRows rows over the columns id and name, with the
\* values 1, 1.0 and "A".
DupKeys == {"id", "name"}

DupValues == {PyInt(1, 1, 0), PyFloat(1, 1, 0), PyStr(<<"A">>)}

InitDup ==
    /\ \E n \in 0..MaxDupRows : InitRows(n, DupKeys, DupValues)
    /\ val = 1
    /\ op = "input"
    /\ ret = 0
    /\ log = <<>>

NextDup == DoFindDuplicates

SpecDup == InitDup /\ [][NextDup]_vars

\* ================================================================== claims
AllWhitespace(s, i, j) == \A x \in i..j : s[x] \in Whitespace

\* The tokens C2 lists.
ClaimTokens ==
    { <<"N", "A">>, <<"N", "/", "A">>, <<"n", "/", "a">>,
      <<"N", "U", "L", "L">>, <<"n", "u", "l", "l">>, <<"N", "o", "n", "e">>,
      <<".">>, <<"-">>, <<"EMDASH">> }

\* s is whitespace, a token or the empty text, whitespace.
PaddedToken(s) ==
    \E tok \in ClaimTokens \cup {<<>>} :
        \E a \in 0..Len(s) :
            /\ a + Len(tok) <= Len(s)
            /\ AllWhitespace(s, 1, a)
            /\ SubSeq(s, a + 1, a + Len(tok)) = tok
            /\ AllWhitespace(s, a + Len(tok) + 1, Len(s))

MissingByClaim(v) == v.t = "null" \/ (IsStr(v) /\ PaddedToken(v.s))

\* C2: is_missing(v) is true exactly when v is null, or v is text whose
\* whitespace-trimmed form is empty or one of the listed tokens; it is false
\* for every number and every other text ("na" and "NONE" are not missing).
C2_IsMissingIff ==
    op = "is_missing" =>
        /\ ret = MissingByClaim(val)
        /\ IsNum(val) => ret = FALSE
        /\ val \in {PyStr(<<"n", "a">>), PyStr(<<"N", "O", "N", "E">>)} => ret = FALSE

C2_Witness ==
    /\ op = "is_missing"
    /\ val = PyStr(<<"\t", "N", "/", "A", "\n">>)
    /\ ret = TRUE

\* The number a currency input stands for, and whether it has none.
CurrencyText(v) == strip(re_sub_currency(v.s))

CurrencyNumber(v) ==
    IF IsNum(v) THEN float_of_num(v) ELSE float_of_str(CurrencyText(v)).v

CurrencyUnparseable(v) ==
    IsStr(v) /\ CurrencyText(v) # <<>> /\ ~float_of_str(CurrencyText(v)).ok

CurrencyNegative(v) == ~CurrencyUnparseable(v) /\ IsNegative(CurrencyNumber(v))

CurrencyHuge(v) == ~CurrencyUnparseable(v) /\ IsHuge(CurrencyNumber(v))

\* C1: clean_currency warns whenever its non-missing input, numeric ones
\* included, is negative, above one billion or unparseable; a negative or huge
\* value is returned unmodified, an unparseable one gives None, nothing raises.
C1_CurrencyWarns ==
    (op = "clean_currency" /\ ~is_missing(val)) =>
        /\ ret # ValueError
        /\ (CurrencyNegative(val) \/ CurrencyHuge(val) \/ CurrencyUnparseable(val))
               => log # <<>>
        /\ (CurrencyNegative(val) \/ CurrencyHuge(val)) => ret = CurrencyNumber(val)
        /\ CurrencyUnparseable(val) => ret = None

\* The leftmost match of [+-]?digits(.digits)? in s, stated by positions: the
\* text s[p..q] is a sign or nothing, digits, and nothing or "." and digits.
AllDigits(s, i, j) == i <= j /\ \A x \in i..j : s[x] \in Digits

IsNumeral(s, p, q) ==
    \E d \in {p, p + 1} :
        /\ d = p + 1 => s[p] \in {"+", "-"}
        /\ \/ AllDigits(s, d, q)
           \/ \E dot \in d + 1..q - 1 :
                  AllDigits(s, d, dot - 1) /\ s[dot] = "." /\ AllDigits(s, dot + 1, q)

LeftmostNumeral(s) ==
    LET p == CHOOSE x \in DOMAIN s :
                 /\ \E q \in x..Len(s) : IsNumeral(s, x, q)
                 /\ \A y \in 1..x - 1 : \A q \in y..Len(s) : ~IsNumeral(s, y, q)
        q == CHOOSE x \in p..Len(s) :
                 /\ IsNumeral(s, p, x)
                 /\ \A y \in x + 1..Len(s) : ~IsNumeral(s, p, y)
    IN  SubSeq(s, p, q)

HasDigit(s) == \E i \in DOMAIN s : s[i] \in Digits

\* C9: clean_distance(v) is None exactly when v is missing or the text form of
\* v holds no digit; otherwise it is the number written by the leftmost
\* numeral of the text form, the rest ignored ("4.32F" gives 4.32, "-2.5"
\* gives -2.5, "4-5F" gives 4); it never raises and never warns.
C9_DistanceLeftmost ==
    op = "clean_distance" =>
        /\ ret # ValueError
        /\ log = <<>>
        /\ (ret = None) = (MissingByClaim(val) \/ ~HasDigit(str(val)))
        /\ ret # None =>
               /\ float_of_str(LeftmostNumeral(str(val))).ok
               /\ ret = float_of_str(LeftmostNumeral(str(val))).v
        /\ val = PyStr(<<"4", ".", "3", "2", "F">>) => ret = PyFloat(1, 432, -2)
        /\ val = PyStr(<<"-", "2", ".", "5">>) => ret = PyFloat(-1, 25, -1)
        /\ val = PyStr(<<"4", "-", "5", "F">>) => ret = PyFloat(1, 4, 0)

C9_Witness ==
    /\ op = "clean_distance"
    /\ val = PyStr(<<"4", "-", "5", "F">>)
    /\ ret = PyFloat(1, 4, 0)

\* The raw and the canonical column names.
RawKeys == {rename_map[i][1] : i \in DOMAIN rename_map}

CanonicalOf(k) ==
    IF k \in RawKeys
    THEN rename_map[CHOOSE i \in DOMAIN rename_map : rename_map[i][1] = k][2]
    ELSE k

\* The input value a column k of the output comes from: the raw column's
\* value when the raw column is present, else the column's own value.
SourceValue(in, k) ==
    IF \E r \in RawKeys \cap Keys(in) : CanonicalOf(r) = k
    THEN dict_get(in, CHOOSE r \in RawKeys \cap Keys(in) : CanonicalOf(r) = k)
    ELSE dict_get(in, k)

\* What the steps after the rename make of the value v of column k.
Normalized(k, v) ==
    IF k = "distance" THEN clean_distance(v)
    ELSE IF k \in {"purse", "earnings"} THEN clean_currency(v).v
    ELSE IF IsStr(v) THEN tidy_string(v)
    ELSE v

\* C8: clean_row renames, then cleans distance, then currency, then tidies:
\* the output's columns are the input's with every raw name replaced by its
\* canonical name; a canonical column holds what its raw column held (also
\* when the input had the canonical column too); distance is clean_distance
\* of that value, purse and earnings clean_currency of theirs, any other text
\* tidy_string of itself, any other non-text value is unchanged, and
\* field_size and final_odds are never turned into numbers.
C8_RowSteps ==
    op = "clean_row" =>
        LET in == heap[val]
            out == heap[ret]
        IN  /\ Keys(out) = {CanonicalOf(k) : k \in Keys(in)}
            /\ Keys(out) \cap RawKeys = {}
            /\ Len(out) = Cardinality(Keys(out))
            /\ \A k \in Keys(out) :
                   dict_get(out, k) = Normalized(k, SourceValue(in, k))
            /\ \A k \in Keys(out) \cap {"field_size", "final_odds"} :
                   IsStr(SourceValue(in, k)) => ~IsNum(dict_get(out, k))

C8_Witness ==
    /\ op = "clean_row"
    /\ Keys(heap[val]) = {"Distance", "distance"}
    /\ dict_get(heap[val], "Distance") = PyStr(<<"4", ".", "3", "2", "F">>)
    /\ dict_get(heap[val], "distance") = PyInt(-1, 5, 0)
    /\ heap[ret] = << <<"distance", PyFloat(1, 432, -2)>> >>

\* C3: clean_row applied to the output of clean_row on a row with canonical
\* keys only gives that output again.
C3_FixedPoint ==
    (op = "clean_row" /\ val > 1 /\ Keys(heap[1]) \cap RawKeys = {}) =>
        DictEq(heap[ret], heap[val])

\* The pure result of clean_row on a row with the pairs d.
CleanRowOf(d) == clean_row(<<d>>, 1).heap[2]

\* C7: clean_data keeps length and order: the output has as many rows as the
\* input, its i-th row is clean_row of the i-th input row, and the empty
\* input gives the empty output.
C7_CleanDataOrder ==
    op = "clean_data" =>
        LET in == lists[val]
            out == lists[ret]
        IN  /\ Len(out) = Len(in)
            /\ \A i \in DOMAIN in : heap[out[i]] = CleanRowOf(heap[in[i]])
            /\ in = <<>> => out = <<>>

C7_Witness ==
    /\ op = "clean_data"
    /\ Len(lists[val]) = 2
    /\ Len(lists[ret]) = 2
    /\ heap[lists[ret][1]] = << <<"purse", PyFloat(1, 1, 0)>> >>
    /\ heap[lists[ret][2]] = << <<"name", PyStr(<<"A">>)>> >>

\* C6: clean_row and clean_data never mutate their input: a call leaves every
\* dict and list that existed before it as it was (also when columns are
\* renamed in the result), and what it returns is a new object: a new dict for
\* clean_row, a new list of new dicts for clean_data.
C6_NoMutation ==
    [][ op' \in {"clean_row", "clean_data"} =>
            /\ \A i \in DOMAIN heap : i \in DOMAIN heap' /\ heap'[i] = heap[i]
            /\ \A l \in DOMAIN lists : l \in DOMAIN lists' /\ lists'[l] = lists[l]
            /\ op' = "clean_row" => ret' \in DOMAIN heap' \ DOMAIN heap
            /\ op' = "clean_data" =>
                   /\ ret' \in DOMAIN lists' \ DOMAIN lists
                   /\ \A j \in DOMAIN lists'[ret'] :
                          lists'[ret'][j] \in DOMAIN heap' \ DOMAIN heap
                   /\ \A i, j \in DOMAIN lists'[ret'] :
                          i # j => lists'[ret'][i] # lists'[ret'][j] ]_vars

C6_Witness ==
    /\ op = "clean_data"
    /\ Len(lists[val]) = 2
    /\ "Purse" \in Keys(heap[1])
    /\ "purse" \in Keys(heap[lists[ret][1]])
    /\ lists[ret] = <<3, 4>>

\* C5: find_missing of no rows is the empty mapping; otherwise its columns are
\* exactly those of the first row, and a column's count is the number of rows
\* whose value for it is missing, a row without the column counting as
\* missing; so every count is between 0 and the number of rows.
C5_FindMissing ==
    op = "find_missing" =>
        LET rows == lists[val]
        IN  /\ rows = <<>> => ret = <<>>
            /\ rows # <<>> =>
                   /\ Keys(ret) = Keys(heap[rows[1]])
                   /\ Len(ret) = Cardinality(Keys(ret))
                   /\ \A c \in Keys(ret) :
                          /\ dict_get(ret, c) =
                                 Cardinality({i \in DOMAIN rows :
                                     \/ c \notin Keys(heap[rows[i]])
                                     \/ MissingByClaim(dict_get(heap[rows[i]], c))})
                          /\ dict_get(ret, c) \in 0..Len(rows)

C5_Witness ==
    /\ op = "find_missing"
    /\ val = 1
    /\ Len(lists[1]) = 2
    /\ Keys(heap[1]) = {"name"}
    /\ Keys(heap[2]) = {"Purse"}
    /\ ret = << <<"name", 1>> >>

\* A value clean_row may leave in a row: None, a number, or a text that is
\* trimmed and is not missing.
CleanValue(v) ==
    \/ v.t = "null"
    \/ IsNum(v)
    \/ /\ IsStr(v)
       /\ v.s # <<>>
       /\ v.s[1] \notin Whitespace
       /\ v.s[Len(v.s)] \notin Whitespace
       /\ ~MissingByClaim(v)

CleanRowValues(d) == \A i \in DOMAIN d : CleanValue(d[i][2])

\* C10: every value of a row clean_row returns is None, a number, or a
\* trimmed text that is not missing, in recognized and extra columns alike;
\* so find_missing of the rows clean_data returns counts, for each column of
\* the first cleaned row, the cleaned rows whose value is None or that lack
\* the column.  (In a state reached by find_missing, list 2 is the list
\* clean_data returned.)
C10_CleanValues ==
    /\ op = "clean_row" => CleanRowValues(heap[ret])
    /\ op = "clean_data" => \A i \in DOMAIN lists[ret] : CleanRowValues(heap[lists[ret][i]])
    /\ (op = "find_missing" /\ val = 2) =>
           LET rows == lists[val]
           IN  /\ rows # <<>> => Keys(ret) = Keys(heap[rows[1]])
               /\ \A c \in Keys(ret) :
                      dict_get(ret, c) =
                          Cardinality({i \in DOMAIN rows :
                              \/ c \notin Keys(heap[rows[i]])
                              \/ dict_get(heap[rows[i]], c) = None})

C10_Witness ==
    /\ op = "find_missing"
    /\ val = 2
    /\ Len(lists[1]) = 2
    /\ heap[1] = << <<"name", PyStr(<<" ", "N", "A">>)>>, <<"Purse", PyStr(<<" ", "A", " ">>)>> >>
    /\ heap[2] = << <<"name", PyStr(<<" ", "A", " ">>)>> >>
    /\ ret = << <<"name", 1>>, <<"purse", 2>> >>

\* The positions of rows that repeat an earlier row.
SamePairs(a, b) ==
    /\ Keys(a) = Keys(b)
    /\ \A k \in Keys(a) : PyEq(dict_get(a, k), dict_get(b, k))

DupPositions(rows) ==
    {i \in DOMAIN rows : \E j \in 1..i - 1 : SamePairs(heap[rows[j]], heap[rows[i]])}

\* C4: find_duplicates returns exactly the rows at the positions that have an
\* earlier row with the same (key, value) pairs, whatever the insertion
\* order of the keys, in input order: never a first occurrence, every later
\* one, so as many rows as the input has minus its distinct contents.
C4_FindDuplicates ==
    op = "find_duplicates" =>
        LET rows == lists[val]
            dups == lists[ret]
        IN  /\ {dups[i] : i \in DOMAIN dups} = {rows[i] : i \in DupPositions(rows)}
            /\ \A i, j \in DOMAIN dups : i < j => dups[i] < dups[j]
            /\ Len(dups) = Len(rows) - Cardinality(DOMAIN rows \ DupPositions(rows))

C4_Witness ==
    /\ op = "find_duplicates"
    /\ Len(lists[val]) = 3
    /\ heap[1] = << <<"id", PyInt(1, 1, 0)>>, <<"name", PyStr(<<"A">>)>> >>
    /\ heap[2] = << <<"name", PyStr(<<"A">>)>>, <<"id", PyInt(1, 1, 0)>> >>
    /\ heap[3] = heap[1]
    /\ lists[ret] = <<2, 3>>

====
